---- MODULE Spec2Model ----
(***************************************************************************)
(* on-air: the log tailer, the PubSub bus, the debounce / throttle         *)
(* wrappers, the light controller subscribers and the websocket boundary   *)
(* of src/ts/index.ts (the version with the PubSub bus, lines 384-718).    *)
(*                                                                         *)
(* Time is the millisecond clock of Date.now() and of setTimeout.  Every   *)
(* handler runs to completion at one instant (the JavaScript event loop is *)
(* single threaded); an expired timer runs before the next I/O callback.   *)
(***************************************************************************)
EXTENDS Integers, Sequences, FiniteSets, TLC

\* ---------------------------------------------------------------- bounds
\* events (log transitions and websocket messages) published on the bus
MaxEvents == 3
\* log transitions published when the log tailer runs with no observer
MaxLines == 4
\* websocket messages published when the log stream is silent
MaxMessages == 3
\* websocket connections ever opened
MaxConns == 2
\* events published when the light or one rate limiter is studied alone
MaxCalls == 3
\* events published when the bus is exercised by a test
MaxBusEvents == 2
\* handlers a test has, besides one that throws
MaxHandlers == 1
\* registrations a test makes on the bus
MaxSubs == 2
\* the longest silence: the clock stops MaxQuiet after the last event
MaxQuiet == 600
\* the short clock step
Tick == 100
\* a boot clock past every rate-limit window (Date.now() of a real clock)
BootClock == 1000

\* ------------------------------------------------------ program constants
\* pubsub.subscribe(debounce(hardwareSubscriber, 500))
HardwareDelay == 500
\* pubsub.subscribe(throttle(onAirSubscriber, 500))
OnAirDelay == 500
\* pubsub.subscribe(throttle(offAirSubscriber, 500))
OffAirDelay == 500
\* let t_prev: number = 0
InitialTPrev == 0

\* ------------------------------------------------------------- log lines
\* A line is the sequence of its characters; String.prototype.includes is
\* substring search.
Includes(line, marker) ==
  \E i \in 1..(Len(line) - Len(marker) + 1) :
    SubSeq(line, i, i + Len(marker) - 1) = marker

NoiseMarker ==
  <<"F","i","l","t","e","r","i","n","g"," ","t","h","e"," ","l","o","g"," ",
    "d","a","t","a"," ","u","s","i","n","g">>
CameraOnMarker == <<"C","o","n","n","e","c","t","C","l","i","e","n","t">>
CameraOffMarker ==
  <<"D","i","s","c","o","n","n","e","c","t","C","l","i","e","n","t">>
MicOnMarker == <<"S","t","a","r","t","i","n","g"," ","{">>
MicOffMarker == <<"S","t","o","p","p","i","n","g"," ","{">>

\* A faulty chain, which tests for the noise banner after the markers.
ClassifyBannerLast(line) ==
  IF Includes(line, CameraOnMarker) THEN "camera_on"
  ELSE IF Includes(line, CameraOffMarker) THEN "camera_off"
  ELSE IF Includes(line, MicOnMarker) THEN "mic_on"
  ELSE IF Includes(line, MicOffMarker) THEN "mic_off"
  ELSE IF Includes(line, NoiseMarker) THEN "noise"
  ELSE "unknown"

\* A faulty chain, which does not skip the noise banner.
ClassifyNoiseBlind(line) ==
  IF Includes(line, CameraOnMarker) THEN "camera_on"
  ELSE IF Includes(line, CameraOffMarker) THEN "camera_off"
  ELSE IF Includes(line, MicOnMarker) THEN "mic_on"
  ELSE IF Includes(line, MicOffMarker) THEN "mic_off"
  ELSE "unknown"

\* A faulty chain, with the two mic markers exchanged.
ClassifyMicSwapped(line) ==
  IF Includes(line, NoiseMarker) THEN "noise"
  ELSE IF Includes(line, CameraOnMarker) THEN "camera_on"
  ELSE IF Includes(line, CameraOffMarker) THEN "camera_off"
  ELSE IF Includes(line, MicOffMarker) THEN "mic_on"
  ELSE IF Includes(line, MicOnMarker) THEN "mic_off"
  ELSE "unknown"

\* The token of a line, as the if / else-if chain of LogTailer.start finds
\* it: "noise" for the `continue`, "unknown" for the final else.
Classify(line) ==
  IF Includes(line, NoiseMarker) THEN "noise"
  ELSE IF Includes(line, CameraOnMarker) THEN "camera_on"
  ELSE IF Includes(line, CameraOffMarker) THEN "camera_off"
  ELSE IF Includes(line, MicOnMarker) THEN "mic_on"
  ELSE IF Includes(line, MicOffMarker) THEN "mic_off"
  ELSE "unknown"

\* The chunks the log stream is drawn from.
CamPrefix == <<"c","a","m",":"," ">>
AudioPrefix == <<"a","u","d","i","o",":"," ">>
LineNoise == NoiseMarker \o <<" ","p","r","o","c","e","s","s">>
LineConnect == CamPrefix \o CameraOnMarker
LineDisconnect == CamPrefix \o CameraOffMarker
LineStarting == AudioPrefix \o MicOnMarker \o <<" ","i","o"," ","}">>
LineStopping == AudioPrefix \o MicOffMarker \o <<" ","i","o"," ","}">>
LineUnknown == <<"h","e","l","l","o">>
LineLowerCase ==
  CamPrefix \o <<"c","o","n","n","e","c","t","c","l","i","e","n","t">>
LineGarbled == CamPrefix \o <<"D","i","s","c","o","n","n","e","c","t","C","l">>
LineNoiseConnect == NoiseMarker \o <<" ">> \o CameraOnMarker
\* one chunk holding two log lines
LineConnectDisconnect == LineConnect \o <<"\n">> \o LineDisconnect
LineStoppingDisconnect == LineStopping \o <<"\n">> \o LineDisconnect

Lines ==
  { LineNoise, LineConnect, LineDisconnect, LineStarting, LineStopping,
    LineUnknown, LineLowerCase, LineGarbled, LineNoiseConnect,
    LineConnectDisconnect, LineStoppingDisconnect }

\* Chunks with the noise banner and markers: the banner before or after
\* each marker, and the banner with all four.
Markers == {CameraOnMarker, CameraOffMarker, MicOnMarker, MicOffMarker}
BannerLines ==
  {NoiseMarker \o <<" ">> \o marker : marker \in Markers}
  \cup {marker \o <<" ">> \o NoiseMarker : marker \in Markers}
  \cup {MicOffMarker \o MicOnMarker \o NoiseMarker \o CameraOffMarker
          \o CameraOnMarker}

\* The token of every chunk of the stream.
TokenOf == [line \in Lines \cup BannerLines |-> Classify(line)]

HardwareKinds == {"camera_on", "camera_off", "mic_on", "mic_off"}

\* ------------------------------------------------------------------ JSON
\* A JSON text is the sequence of its tokens: punctuation, a string, a
\* boolean.
Punct(c) == [k |-> c, s |-> "", b |-> FALSE]
Str(x) == [k |-> "str", s |-> x, b |-> FALSE]
Bool(v) == [k |-> "bool", s |-> "", b |-> v]

\* An event object of the bus: its type, and whether it has the camera and
\* mic fields of a LogEvent (a WSEvent has none: they read as undefined).
LogEventOf(kind, st) ==
  [type |-> kind, has |-> TRUE, camera |-> st.camera, mic |-> st.mic]
WSEventOf(kind) ==
  [type |-> kind, has |-> FALSE, camera |-> FALSE, mic |-> FALSE]

\* JSON.stringify of an event object: its own fields in insertion order.
Stringify(e) ==
  <<Punct("{"), Str("type"), Punct(":"), Str(e.type)>>
  \o (IF e.has
      THEN <<Punct(","), Str("camera"), Punct(":"), Bool(e.camera),
             Punct(","), Str("mic"), Punct(":"), Bool(e.mic)>>
      ELSE <<>>)
  \o <<Punct("}")>>

\* The number of "key : value" members of a text shaped as an object.
Members(text) == (Len(text) - 1) \div 4

\* JSON.parse accepts the text: an object of string or boolean members.
WellFormed(text) ==
  /\ Len(text) >= 5
  /\ (Len(text) - 1) % 4 = 0
  /\ text[1] = Punct("{")
  /\ \A m \in 1..Members(text) :
       /\ text[4 * m - 2].k = "str"
       /\ text[4 * m - 1] = Punct(":")
       /\ text[4 * m].k \in {"str", "bool"}
       /\ text[4 * m + 1] = Punct(IF m = Members(text) THEN "}" ELSE ",")

\* The members of a well-formed text named `key` (the last one wins).
MembersNamed(text, key) ==
  {m \in 1..Members(text) : text[4 * m - 2] = Str(key)}
Has(text, key, kind) ==
  \E m \in MembersNamed(text, key) :
    /\ \A n \in MembersNamed(text, key) : n <= m
    /\ text[4 * m].k = kind
ValueOf(text, key) ==
  LET m == CHOOSE m \in MembersNamed(text, key) :
             \A n \in MembersNamed(text, key) : n <= m
  IN text[4 * m]

\* JSON.parse(String(message)) read as an event object.
Parse(text) ==
  [type |-> IF Has(text, "type", "str")
            THEN ValueOf(text, "type").s ELSE "undefined",
   has |-> Has(text, "camera", "bool") /\ Has(text, "mic", "bool"),
   camera |-> Has(text, "camera", "bool") /\ Has(text, "mic", "bool")
              /\ ValueOf(text, "camera").b,
   mic |-> Has(text, "camera", "bool") /\ Has(text, "mic", "bool")
           /\ ValueOf(text, "mic").b]

\* What an observer may send: the two buttons of the page, a hardware kind
\* with no state, and a text cut short.
MsgOnAir == <<Punct("{"), Str("type"), Punct(":"), Str("on_air"), Punct("}")>>
MsgOffAir ==
  <<Punct("{"), Str("type"), Punct(":"), Str("off_air"), Punct("}")>>
MsgCameraOff ==
  <<Punct("{"), Str("type"), Punct(":"), Str("camera_off"), Punct("}")>>
MsgCutShort == <<Punct("{"), Str("type"), Punct(":")>>
ClientMessages == {MsgOnAir, MsgOffAir, MsgCameraOff, MsgCutShort}

\* ----------------------------------------------------------------- state
VARIABLES
  now,          \* Date.now() and the timer clock, in ms
  state,        \* LogTailer.#state
  timeout,      \* debounce: the timer of the closure (pending, due, args)
  tPrev,        \* throttle: t_prev of the on_air and of the off_air closure
  subscribers,  \* PubSub.#subscribers, in subscription order
  ws,           \* each websocket: "new", "open" or "closed"
  inbox,        \* the texts each observer has received, in order
  calls,        \* the POSTs of the light controller, in order
  published,    \* history: the events given to PubSub.publish, with the time
  deliveries,   \* history: the calls of the three light subscribers
  lateSends,    \* history: ws.send calls made on a closed websocket
  script,       \* history: how far the log stream has followed Script
  invoked,      \* history: the handler calls of PubSub.publish, in order
  tailing,      \* the read loop of LogTailer.start is running
  rejected,     \* the POSTs (positions in calls) whose fetch has rejected
  alive         \* the process is running

vars ==
  <<now, state, timeout, tPrev, subscribers, ws, inbox, calls, published,
    deliveries, lateSends, script, invoked, tailing,
    rejected, alive>>

Conns == 1..MaxConns

NoEvent == WSEventOf("")
NoTimeout == [pending |-> FALSE, due |-> 0, args |-> NoEvent]

HardwareSub == [kind |-> "hardware", conn |-> 0]
OnAirSub == [kind |-> "on_air", conn |-> 0]
OffAirSub == [kind |-> "off_air", conn |-> 0]
Forwarder(c) == [kind |-> "forward", conn |-> c]

\* The state after `main` has run, when Date.now() reads t.
InitAt(t) ==
  /\ now = t
  /\ state = [camera |-> FALSE, mic |-> FALSE]
  /\ timeout = NoTimeout
  /\ tPrev = [on_air |-> InitialTPrev, off_air |-> InitialTPrev]
  /\ subscribers = <<HardwareSub, OnAirSub, OffAirSub>>
  /\ ws = [c \in Conns |-> "new"]
  /\ inbox = [c \in Conns |-> <<>>]
  /\ calls = <<>>
  /\ published = <<>>
  /\ deliveries = <<>>
  /\ lateSends = [c \in Conns |-> 0]
  /\ script = 0
  /\ invoked = <<>>
  /\ tailing = TRUE
  /\ rejected = {}
  /\ alive = TRUE

\* The program started on a real clock.
Init == InitAt(BootClock)

\* The program started on a test clock, which may read 0.
InitTestClock == \E t \in {0, BootClock} : InitAt(t)

\* ------------------------------------------------------------- handlers
\* `!state.mic` of hardwareSubscriber: an absent field is undefined.
Falsy(e, field) == ~(e.has /\ e[field])

\* A faulty hardwareSubscriber, which forgets the `!state.mic` test.
HardwareSubscriberEager(e) ==
  IF e.type \notin HardwareKinds THEN "none"
  ELSE IF e.type = "camera_on" THEN "ON"
  ELSE IF e.type = "mic_on" THEN "ON"
  ELSE IF e.type = "camera_off" THEN "OFF"
  ELSE IF e.type = "mic_off" /\ Falsy(e, "camera") THEN "OFF"
  ELSE "none"

\* hardwareSubscriberFactory: the command sent to the light, or "none".
HardwareSubscriber(e) ==
  IF e.type \notin HardwareKinds THEN "none"
  ELSE IF e.type = "camera_on" THEN "ON"
  ELSE IF e.type = "mic_on" THEN "ON"
  ELSE IF e.type = "camera_off" /\ Falsy(e, "mic") THEN "OFF"
  ELSE IF e.type = "mic_off" /\ Falsy(e, "camera") THEN "OFF"
  ELSE "none"

\* A faulty onAirSubscriber, which also acts on the transitions that turn
\* the camera or the mic on.
OnAirSubscriberGreedy(e) ==
  IF e.type \in {"on_air", "camera_on", "mic_on"} THEN "ON" ELSE "none"

\* onAirSubscriberFactory
OnAirSubscriber(e) == IF e.type # "on_air" THEN "none" ELSE "ON"

\* offAirSubscriberFactory
OffAirSubscriber(e) == IF e.type # "off_air" THEN "none" ELSE "OFF"

\* light.on() / light.off(): one POST, logged with the handler and the
\* event that caused it.
Light(log, cmd, by, e) ==
  IF cmd = "none" THEN log
  ELSE Append(log, [cmd |-> cmd, by |-> by, ev |-> e])

\* A faulty debounce, which leaves a pending timer alone (no clearTimeout,
\* no new timer).
DebounceKeepFirst(tm, e, delay) ==
  IF tm.pending THEN tm
  ELSE [pending |-> TRUE, due |-> now + delay, args |-> e]

\* A faulty debounce, which starts the timer anew but keeps the arguments
\* of the first call of the burst.
DebounceStale(tm, e, delay) ==
  [pending |-> TRUE, due |-> now + delay,
   args |-> IF tm.pending THEN tm.args ELSE e]

\* debounce: clearTimeout, then setTimeout(func(args), delay).
Debounce(tm, e, delay) == [pending |-> TRUE, due |-> now + delay, args |-> e]

\* A faulty throttle test, strict where the code is not.
ThrottlePassesStrict(t, prev, delay) == t - prev > delay

\* throttle: `now - t_prev >= delay`.
ThrottlePasses(t, prev, delay) == t - prev >= delay

\* A faulty filter, which drops the first registration of the handler only.
RECURSIVE RemovedFirst(_, _)
RemovedFirst(subs, h) ==
  IF subs = <<>> THEN <<>>
  ELSE IF Head(subs) = h THEN Tail(subs)
  ELSE <<Head(subs)>> \o RemovedFirst(Tail(subs), h)

\* this.#subscribers.filter((sub) => sub !== subscriber)
Removed(subs, h) == SelectSeq(subs, LAMBDA sub : sub # h)

\* The parts of the state a publish changes.
Cell == [timeout |-> timeout, tPrev |-> tPrev, calls |-> calls,
         inbox |-> inbox, lateSends |-> lateSends, deliveries |-> deliveries,
         invoked |-> invoked, subscribers |-> subscribers]

\* The record of one call of a light subscriber: the handler, its argument,
\* the time, what it sent to the light, and the number of events published
\* by then.
Delivery(by, e, cmd, n) ==
  [by |-> by, ev |-> e, at |-> now, cmd |-> cmd, n |-> n]

\* throttle(onAirSubscriber / offAirSubscriber, delay) called with e.
Throttled(m, which, delay, cmd, e) ==
  IF ThrottlePasses(now, m.tPrev[which], delay)
  THEN [m EXCEPT !.tPrev[which] = now,
                 !.calls = Light(m.calls, cmd, which, e),
                 !.deliveries =
                   Append(@, Delivery(which, e, cmd, Len(published) + 1))]
  ELSE m

\* (event) => ws.send(JSON.stringify(event)); a closed socket drops it.
Forward(m, c, e) ==
  IF ws[c] = "open"
  THEN [m EXCEPT !.inbox[c] = Append(m.inbox[c], Stringify(e))]
  ELSE [m EXCEPT !.lateSends[c] = m.lateSends[c] + 1]

\* One subscriber of the bus called with event e.
Invoke(sub, m, e) ==
  CASE sub.kind = "hardware" ->
         [m EXCEPT !.timeout = Debounce(m.timeout, e, HardwareDelay)]
    [] sub.kind = "on_air" ->
         Throttled(m, "on_air", OnAirDelay, OnAirSubscriber(e), e)
    [] sub.kind = "off_air" ->
         Throttled(m, "off_air", OffAirDelay, OffAirSubscriber(e), e)
    [] sub.kind = "forward" -> Forward(m, sub.conn, e)
    [] sub.kind = "probe" -> m
    [] sub.kind = "once" ->
         [m EXCEPT !.subscribers = Removed(@, sub)]
    [] sub.kind = "cancel" ->
         [m EXCEPT !.subscribers = Removed(@, [kind |-> "probe", conn |-> sub.conn])]
    [] sub.kind = "add" ->
         [m EXCEPT !.subscribers = Append(@, [kind |-> "probe", conn |-> sub.conn])]

\* A handler of a test: it does nothing, or it throws when it is called.
Handler(h) == [kind |-> "probe", conn |-> h]
Thrower == [kind |-> "throw", conn |-> 0]
\* Handlers of a test that change the subscriber list while they are
\* called: one calls its own unsubscribe function, one the unsubscribe
\* function of handler h, one subscribes handler h.
Once == [kind |-> "once", conn |-> 0]
Canceller(h) == [kind |-> "cancel", conn |-> h]
Adder(h) == [kind |-> "add", conn |-> h]

\* The record of one handler call: the handler and the number of the event.
Call(sub) == [sub |-> sub, n |-> Len(published) + 1]

\* A handler on the bus throws: forEach stops there and publish throws.
Throws == \E i \in 1..Len(subscribers) : subscribers[i] = Thrower

\* A faulty publish, whose loop stops one subscriber short.
RECURSIVE PublishFromShort(_, _, _)
PublishFromShort(m, e, i) ==
  IF i >= Len(subscribers) THEN m
  ELSE PublishFromShort(Invoke(subscribers[i], m, e), e, i + 1)

\* A faulty fan-out, which walks the subscribers from the last to the first.
RECURSIVE PublishFromReverse(_, _, _)
PublishFromReverse(m, e, i) ==
  IF i > Len(subscribers) THEN m
  ELSE LET sub == subscribers[Len(subscribers) + 1 - i] IN
       IF sub = Thrower
       THEN [m EXCEPT !.invoked = Append(@, Call(sub))]
       ELSE PublishFromReverse(
              Invoke(sub, [m EXCEPT !.invoked = Append(@, Call(sub))], e),
              e, i + 1)

\* A faulty fan-out, which walks the list the field holds at each step, up
\* to the length it has then (`for (i = 0; i < this.#subscribers.length;
\* i++)`).
RECURSIVE PublishFromLive(_, _, _)
PublishFromLive(m, e, i) ==
  IF i > Len(m.subscribers) THEN m
  ELSE IF m.subscribers[i] = Thrower
  THEN [m EXCEPT !.invoked = Append(@, Call(m.subscribers[i]))]
  ELSE PublishFromLive(
         Invoke(m.subscribers[i],
                [m EXCEPT !.invoked = Append(@, Call(m.subscribers[i]))], e),
         e, i + 1)

\* PubSub.publish: this.#subscribers.forEach((sub) => sub(event)).
\* forEach walks the array the field referred to when publish was called,
\* over the length it had then: a push during the walk lands beyond that
\* length, and filter builds a new array and leaves the walked one as it
\* was.  The walk is therefore over `subscribers`, while the handlers
\* change the field in m.
RECURSIVE PublishFrom(_, _, _)
PublishFrom(m, e, i) ==
  IF i > Len(subscribers) THEN m
  ELSE IF subscribers[i] = Thrower
  THEN [m EXCEPT !.invoked = Append(@, Call(subscribers[i]))]
  ELSE PublishFrom(
         Invoke(subscribers[i],
                [m EXCEPT !.invoked = Append(@, Call(subscribers[i]))], e),
         e, i + 1)

Publish(e) ==
  LET m == PublishFrom(Cell, e, 1)
  IN /\ published' = Append(published, [ev |-> e, at |-> now])
     /\ timeout' = m.timeout
     /\ tPrev' = m.tPrev
     /\ calls' = m.calls
     /\ inbox' = m.inbox
     /\ lateSends' = m.lateSends
     /\ deliveries' = m.deliveries
     /\ invoked' = m.invoked
     /\ subscribers' = m.subscribers

\* An expired timer runs before any I/O callback of the same instant.
TimerDue == timeout.pending /\ now >= timeout.due

\* The time of the last event on the bus (0 before the first one).
LastActivity == IF published = <<>> THEN 0 ELSE published[Len(published)].at

\* The end-to-end stream: the banner, then camera on, mic on, camera off,
\* mic off, each more than the debounce window after the one before.
Script ==
  <<LineNoise, LineConnect, LineStarting, LineDisconnect, LineStopping>>

\* The position in Script after this chunk, -1 once the stream has left it.
Follow(line) ==
  IF /\ script \in 0..(Len(Script) - 1)
     /\ line = Script[script + 1]
     /\ script <= 1 \/ now - LastActivity > HardwareDelay
  THEN script + 1
  ELSE -1

\* A faulty tailer, which goes on reading after its source has ended.
StreamingAgain == TRUE

\* `for await (const chunk of this.#process.stdout)`: the loop body runs
\* only while the stream of the source yields chunks.
Streaming == tailing

\* -------------------------------------------------------------- actions
\* LogTailer.start: one chunk of the log stream.
\* A handler that throws ends the loop in the catch of line 462, before the
\* assignment to this.#state.
ProcessLine(line) ==
  /\ Streaming
  /\ ~TimerDue
  /\ script' = Follow(line)
  /\ LET token == TokenOf[line]
     IN IF token \in HardwareKinds
        THEN /\ Publish(LogEventOf(token, state))
             /\ state' =
                  IF Throws THEN state
                  ELSE CASE token = "camera_on" -> [state EXCEPT !.camera = TRUE]
                         [] token = "camera_off" -> [state EXCEPT !.camera = FALSE]
                         [] token = "mic_on" -> [state EXCEPT !.mic = TRUE]
                         [] token = "mic_off" -> [state EXCEPT !.mic = FALSE]
             /\ tailing' = ~Throws
             /\ UNCHANGED <<now, ws, rejected, alive>>
        ELSE UNCHANGED <<now, state, timeout, tPrev, subscribers, ws, inbox,
                         calls, published, deliveries, lateSends, invoked,
                         tailing, rejected, alive>>

\* The timer of debounce fires: func.apply(this, args).
FireTimeout ==
  /\ TimerDue
  /\ calls' = Light(calls, HardwareSubscriber(timeout.args), "hardware",
                    timeout.args)
  /\ deliveries' = Append(deliveries,
       Delivery("hardware", timeout.args, HardwareSubscriber(timeout.args),
                Len(published)))
  /\ timeout' = NoTimeout
  /\ UNCHANGED <<now, state, tPrev, subscribers, ws, inbox, published,
                 lateSends, script, invoked, tailing,
                 rejected, alive>>

\* websocket.open
Open(c) ==
  /\ ~TimerDue
  /\ ws[c] = "new"
  /\ \A d \in Conns : d < c => ws[d] # "new"
  /\ ws' = [ws EXCEPT ![c] = "open"]
  /\ inbox' = [inbox EXCEPT ![c] =
       Append(@, Stringify(WSEventOf(
         IF state.camera \/ state.mic THEN "on" ELSE "off")))]
  /\ subscribers' = Append(subscribers, Forwarder(c))
  /\ UNCHANGED <<now, state, timeout, tPrev, calls, published, deliveries,
                 lateSends, script, invoked, tailing,
                 rejected, alive>>

\* A faulty websocket.message, which lets a directive set the tracked state.
MessageTracks(c, text) ==
  /\ ~TimerDue
  /\ ws[c] = "open"
  /\ IF WellFormed(text)
     THEN /\ Publish(Parse(text))
          /\ script' = -1
          /\ state' = IF Parse(text).type = "off_air"
                      THEN [camera |-> FALSE, mic |-> FALSE]
                      ELSE state
          /\ UNCHANGED <<now, ws, tailing, rejected, alive>>
     ELSE UNCHANGED vars

\* websocket.message
Message(c, text) ==
  /\ ~TimerDue
  /\ ws[c] = "open"
  /\ IF WellFormed(text)
     THEN /\ Publish(Parse(text))
          /\ script' = -1
          /\ UNCHANGED <<now, state, ws, tailing, rejected, alive>>
     ELSE UNCHANGED vars

\* websocket.close: the handler is empty.
Close(c) ==
  /\ ~TimerDue
  /\ ws[c] = "open"
  /\ ws' = [ws EXCEPT ![c] = "closed"]
  /\ UNCHANGED <<now, state, timeout, tPrev, subscribers, inbox, calls,
                 published, deliveries, lateSends, script, invoked, tailing,
                 rejected, alive>>

\* The moments the clock is read at: after each event, within the window of
\* the rate limiters, at its end, and past it.
Marks ==
  UNION {{published[i].at + Tick, published[i].at + HardwareDelay,
          published[i].at + MaxQuiet} : i \in 1..Len(published)}

\* Time passes up to t: not beyond the moment the pending timer is due.
Advance(t) ==
  /\ t > now
  /\ timeout.pending => t <= timeout.due
  /\ now' = t
  /\ UNCHANGED <<state, timeout, tPrev, subscribers, ws, inbox, calls,
                 published, deliveries, lateSends, script, invoked, tailing,
                 rejected, alive>>

\* The whole program: the log tailer, the timer and the observers.
Next ==
  \/ /\ Len(published) < MaxEvents
     /\ \E line \in Lines : ProcessLine(line)
  \/ FireTimeout
  \/ \E c \in Conns : Open(c)
  \/ /\ Len(published) < MaxEvents
     /\ \E c \in Conns, text \in ClientMessages : Message(c, text)
  \/ \E c \in Conns : Close(c)
  \/ \E t \in Marks : Advance(t)

Spec == Init /\ [][Next]_vars

\* The log tailer and the light alone: no observer connects.
NextTailer ==
  \/ /\ Len(published) < MaxLines
     /\ \E line \in Lines : ProcessLine(line)
  \/ FireTimeout
  \/ \E t \in Marks : Advance(t)

SpecTailer == Init /\ [][NextTailer]_vars

\* The observers and the light alone: the log stream is silent.
NextObservers ==
  \/ FireTimeout
  \/ \E c \in Conns : Open(c)
  \/ /\ Len(published) < MaxMessages
     /\ \E c \in Conns, text \in ClientMessages : Message(c, text)
  \/ \E c \in Conns : Close(c)
  \/ \E t \in Marks : Advance(t)

SpecObservers == Init /\ [][NextObservers]_vars

\* The same, on a test clock.
SpecTestClock == InitTestClock /\ [][NextObservers]_vars

\* The timer fires and time passes: the event loop runs an expired timer,
\* and the clock does not stop.
Fairness ==
  /\ WF_vars(FireTimeout)
  /\ WF_vars(\E t \in Marks : Advance(t))

\* The light and what drives it: the log tailer and one observer.
NextLight ==
  \/ /\ Len(published) < MaxCalls
     /\ \E line \in Lines : ProcessLine(line)
  \/ FireTimeout
  \/ Open(1)
  \/ /\ Len(published) < MaxCalls
     /\ \E text \in ClientMessages : Message(1, text)
  \/ \E t \in Marks : Advance(t)

SpecLight == Init /\ [][NextLight]_vars

\* The debounced handler alone: a few log transitions, the timer, the clock.
NextDebounce ==
  \/ /\ Len(published) < MaxCalls
     /\ \E line \in Lines : ProcessLine(line)
  \/ FireTimeout
  \/ \E t \in Marks : Advance(t)

SpecDebounce == Init /\ [][NextDebounce]_vars /\ Fairness

\* The throttled handlers alone: one observer sends a few messages.
NextThrottle ==
  \/ FireTimeout
  \/ Open(1)
  \/ /\ Len(published) < MaxCalls
     /\ \E text \in ClientMessages : Message(1, text)
  \/ \E t \in Marks : Advance(t)

SpecThrottle == Init /\ [][NextThrottle]_vars

\* ----------------------------------------------------------------- page
\* The characters of the event types the page can be sent.
TypeChars ==
  [type \in {"on", "off", "on_air", "off_air", "camera_on", "camera_off",
             "mic_on", "mic_off", "undefined"} |->
    CASE type = "on" -> <<"o","n">>
      [] type = "off" -> <<"o","f","f">>
      [] type = "on_air" -> <<"o","n","_","a","i","r">>
      [] type = "off_air" -> <<"o","f","f","_","a","i","r">>
      [] type = "camera_on" -> <<"c","a","m","e","r","a","_","o","n">>
      [] type = "camera_off" -> <<"c","a","m","e","r","a","_","o","f","f">>
      [] type = "mic_on" -> <<"m","i","c","_","o","n">>
      [] type = "mic_off" -> <<"m","i","c","_","o","f","f">>
      [] type = "undefined" -> <<"u","n","d","e","f","i","n","e","d">>]

\* handleEvent of the page: the status the buttons show after a message of
\* this type, given the status shown before.
HandleEvent(shown, type) ==
  IF Includes(TypeChars[type], <<"o","n">>) THEN "on"
  ELSE IF Includes(TypeChars[type], <<"o","f","f">>) THEN "off"
  ELSE shown

\* The status the page of an observer shows after these messages ("none":
\* no button is lit).
RECURSIVE ShownAfter(_)
ShownAfter(texts) ==
  IF texts = <<>> THEN "none"
  ELSE HandleEvent(ShownAfter(SubSeq(texts, 1, Len(texts) - 1)),
                   Parse(texts[Len(texts)]).type)

\* ------------------------------------------- the tailer without the bus
\* The version of the program with no bus and no observers (it follows the
\* page in the source file): LogTailer calls its subscribers with
\* (this.#state, kind), and its one subscriber is debounce(logSubscriber).

\* logSubscriberFactory: the command sent to the light, or "none".
LogSubscriber(e) ==
  IF e.type = "camera_on" THEN "ON"
  ELSE IF e.type = "mic_on" THEN "ON"
  ELSE IF e.type = "camera_off" /\ ~e.mic THEN "OFF"
  ELSE IF e.type = "mic_off" /\ ~e.camera THEN "OFF"
  ELSE "none"

\* The arguments (this.#state, kind) kept by the timer: the state object is
\* held by reference, so the record keeps the kind only.
RefEvent(kind) == [type |-> kind, has |-> TRUE, camera |-> FALSE, mic |-> FALSE]

\* What the handler reads through the reference when it runs.
Deref(args) == LogEventOf(args.type, state)

\* this.#state.camera = ... / this.#state.mic = ...
Applied(st, token) ==
  CASE token = "camera_on" -> [st EXCEPT !.camera = TRUE]
    [] token = "camera_off" -> [st EXCEPT !.camera = FALSE]
    [] token = "mic_on" -> [st EXCEPT !.mic = TRUE]
    [] token = "mic_off" -> [st EXCEPT !.mic = FALSE]

\* LogTailer.start of this version: one chunk of the log stream.  The
\* history `published` records the transition with the state before it.
ProcessLineByRef(line) ==
  /\ ~TimerDue
  /\ TokenOf[line] \in HardwareKinds
  /\ timeout' = Debounce(timeout, RefEvent(TokenOf[line]), HardwareDelay)
  /\ published' =
       Append(published, [ev |-> LogEventOf(TokenOf[line], state), at |-> now])
  /\ state' = Applied(state, TokenOf[line])
  /\ UNCHANGED <<now, tPrev, subscribers, ws, inbox, calls, deliveries,
                 lateSends, script, invoked, tailing,
                 rejected, alive>>

\* The timer of debounce fires: logSubscriber(state, kind), the state read
\* as it is now.
FireTimeoutByRef ==
  /\ TimerDue
  /\ calls' = Light(calls, LogSubscriber(Deref(timeout.args)), "hardware",
                    Deref(timeout.args))
  /\ deliveries' = Append(deliveries,
       Delivery("hardware", Deref(timeout.args),
                LogSubscriber(Deref(timeout.args)), Len(published)))
  /\ timeout' = NoTimeout
  /\ UNCHANGED <<now, state, tPrev, subscribers, ws, inbox, published,
                 lateSends, script, invoked, tailing,
                 rejected, alive>>

NextByRef ==
  \/ /\ Len(published) < MaxCalls
     /\ \E line \in Lines : ProcessLineByRef(line)
  \/ FireTimeoutByRef
  \/ \E t \in Marks : Advance(t)

SpecByRef == Init /\ [][NextByRef]_vars

\* ------------------------------------------------- the bus under a test
\* PubSub.subscribe and the function it returns, called by a test with
\* handlers of its own.

Probes == {Handler(h) : h \in 1..MaxHandlers}

\* this.#subscribers.push(subscriber)
Subscribe(h) ==
  /\ Len(subscribers) < Len(<<HardwareSub, OnAirSub, OffAirSub>>) + MaxSubs
  /\ subscribers' = Append(subscribers, h)
  /\ UNCHANGED <<now, state, timeout, tPrev, ws, inbox, calls, published,
                 deliveries, lateSends, script, invoked, tailing,
                 rejected, alive>>

\* The function returned by subscribe(h) is called.
Unsubscribe(h) ==
  /\ subscribers' = Removed(subscribers, h)
  /\ UNCHANGED <<now, state, timeout, tPrev, ws, inbox, calls, published,
                 deliveries, lateSends, script, invoked, tailing,
                 rejected, alive>>

\* The bus with the handlers of a test on it, fed by the log tailer while
\* the camera goes on and off; the test either goes on at once or waits
\* until the timer of the hardware handler is due.
NextBus ==
  \/ /\ Len(published) < MaxBusEvents
     /\ ProcessLine(IF state.camera THEN LineDisconnect ELSE LineConnect)
  \/ FireTimeout
  \/ \E h \in Probes : Subscribe(h)
  \/ \E h \in Probes : Unsubscribe(h)
  \/ Advance(LastActivity + HardwareDelay)

SpecBus == Init /\ [][NextBus]_vars

\* The same, with a handler that throws among them.
NextFault ==
  \/ /\ Len(published) < MaxBusEvents
     /\ \E line \in Lines : ProcessLine(line)
  \/ FireTimeout
  \/ \E h \in Probes \cup {Thrower} : Subscribe(h)
  \/ \E h \in Probes \cup {Thrower} : Unsubscribe(h)
  \/ \E t \in Marks : Advance(t)

SpecFault == Init /\ [][NextFault]_vars

\* ------------------------------------------------- the gateway failing
\* `await fetch(url, { method: "POST" })` of light.on() / light.off() rejects
\* (no route, DNS failure, connection reset).  Nothing on the path catches:
\* the promise of light.on() rejects, then the promise of the async handler,
\* then the promise of the timer callback of debounce (or of the wrapper of
\* throttle, which publish drops).  What the runtime does with a rejection
\* no one handles is its policy, not the program's: it reports it and goes
\* on, or raises it as an uncaught exception and ends the process.
Reject(k) ==
  /\ alive
  /\ k \in 1..Len(calls)
  /\ k \notin rejected
  /\ rejected' = rejected \cup {k}
  /\ alive' \in BOOLEAN
  /\ UNCHANGED <<now, state, timeout, tPrev, subscribers, ws, inbox, calls,
                 published, deliveries, lateSends, script, invoked, tailing>>

\* The debounced handler fed by the log tailer, with a gateway that can
\* fail; once the process has ended no callback runs.
NextGateway ==
  \/ alive /\ NextDebounce
  \/ \E k \in 1..MaxCalls : Reject(k)

SpecGateway == Init /\ [][NextGateway]_vars

\* ------------------------------------------------- the source ending
\* The stdout of `log stream` closes or errors: the `for await` loop ends,
\* normally or in the catch of line 462, and start() returns.  Nothing
\* spawns the source again; main did not await start() and the server goes
\* on.
StreamEnds ==
  /\ ~TimerDue
  /\ tailing
  /\ tailing' = FALSE
  /\ UNCHANGED <<now, state, timeout, tPrev, subscribers, ws, inbox, calls,
                 published, deliveries, lateSends, script, invoked, rejected,
                 alive>>

\* The log tailer with a source that can end, the light and one observer.
NextStream ==
  \/ /\ Len(published) < MaxBusEvents
     /\ \E line \in Lines : ProcessLine(line)
  \/ StreamEnds
  \/ FireTimeout
  \/ Open(1)
  \/ /\ Len(published) < MaxBusEvents
     /\ \E text \in ClientMessages : Message(1, text)
  \/ \E t \in Marks : Advance(t)

SpecStream == Init /\ [][NextStream]_vars

\* ------------------------------------------------- the banner in the stream
\* The log tailer and the debounced handler, fed with plain marker lines
\* and with chunks that hold the noise banner next to markers.
NextBanner ==
  \/ /\ Len(published) < MaxCalls
     /\ \E line \in {LineConnect, LineDisconnect, LineStarting, LineStopping}
                    \cup BannerLines :
          ProcessLine(line)
  \/ FireTimeout
  \/ \E t \in Marks : Advance(t)

SpecBanner == Init /\ [][NextBanner]_vars

\* ------------------------------------------------- handlers changing the list
\* The bus with handlers of a test that unsubscribe or subscribe while
\* they are called, fed by the log tailer while the camera goes on and off.
Reentrant == Probes \cup {Once, Canceller(1), Adder(1)}

NextReentrant ==
  \/ /\ Len(published) < MaxBusEvents
     /\ ProcessLine(IF state.camera THEN LineDisconnect ELSE LineConnect)
  \/ \E h \in Reentrant : Subscribe(h)

SpecReentrant == Init /\ [][NextReentrant]_vars

\* ================================================================ claims
\* The entries of a history kept by a test.
Select(log, Test(_)) == SelectSeq(log, Test)
LastCmd == IF calls = <<>> THEN "OFF" ELSE calls[Len(calls)].cmd
ByHardware(d) == d.by = "hardware"
ByOnAir(d) == d.by = "on_air"
ByOffAir(d) == d.by = "off_air"
Acted(d) == d.cmd # "none"

\* The decision table of the actuator, row by row.
TableAction(e) ==
  CASE e.type = "camera_on" -> "ON"
    [] e.type = "mic_on" -> "ON"
    [] e.type = "camera_off" /\ ~e.mic -> "OFF"
    [] e.type = "camera_off" /\ e.mic -> "none"
    [] e.type = "mic_off" /\ ~e.camera -> "OFF"
    [] e.type = "mic_off" /\ e.camera -> "none"
    [] e.type = "on_air" -> "ON"
    [] e.type = "off_air" -> "OFF"

\* The events the table is about: a hardware transition with its
\* stateBefore, a manual directive without one.
TableEvent(e) ==
  \/ e.type \in HardwareKinds /\ e.has
  \/ e.type \in {"on_air", "off_air"} /\ ~e.has

\* The subscriber that acts on an event of this type.
Handles(by, type) ==
  \/ by = "hardware" /\ type \in HardwareKinds
  \/ by = "on_air" /\ type = "on_air"
  \/ by = "off_air" /\ type = "off_air"

\* C1: every event of the decision table that passes the rate limiter of the
\* subscriber that handles it makes that subscriber send the command of its
\* row (ON, OFF, or nothing for camera_off with mic on and mic_off with
\* camera on), and the light receives exactly the commands the subscribers
\* sent, in order.
C1_DecisionTable ==
  /\ \A i \in 1..Len(deliveries) :
       LET d == deliveries[i]
       IN TableEvent(d.ev) /\ Handles(d.by, d.ev.type)
            => d.cmd = TableAction(d.ev)
  /\ LET acted == Select(deliveries, Acted)
     IN /\ Len(calls) = Len(acted)
        /\ \A i \in 1..Len(calls) :
             calls[i] = [cmd |-> acted[i].cmd, by |-> acted[i].by,
                         ev |-> acted[i].ev]

C1_Witness ==
  /\ \E i \in 1..Len(deliveries) :
       /\ deliveries[i].by = "hardware"
       /\ deliveries[i].ev.type = "camera_off"
       /\ deliveries[i].ev.has /\ deliveries[i].ev.mic
       /\ deliveries[i].cmd = "none"
  /\ \E i \in 1..Len(calls) : calls[i].by = "on_air" /\ calls[i].cmd = "ON"

\* The markers in the order LogTailer.start tests them, with the transition
\* of each.
MarkerOrder ==
  <<[marker |-> CameraOnMarker, kind |-> "camera_on"],
    [marker |-> CameraOffMarker, kind |-> "camera_off"],
    [marker |-> MicOnMarker, kind |-> "mic_on"],
    [marker |-> MicOffMarker, kind |-> "mic_off"]>>

\* The lines with the noise marker, and the markers each line contains.
Noisy == {line \in Lines : Includes(line, NoiseMarker)}
Contained ==
  [line \in Lines |->
    {k \in 1..Len(MarkerOrder) : Includes(line, MarkerOrder[k].marker)}]

\* This step publishes one transition of this kind and sets its field.
Yields(kind) ==
  /\ Len(published') = Len(published) + 1
  /\ published'[Len(published')].ev.type = kind
  /\ CASE kind = "camera_on" -> state'.camera
       [] kind = "camera_off" -> ~state'.camera
       [] kind = "mic_on" -> state'.mic
       [] kind = "mic_off" -> ~state'.mic

\* The end-to-end stream has been read and every timer has fired.
ScriptDone == script = Len(Script) /\ ~timeout.pending

TypesPublished == [i \in 1..Len(published) |-> published[i].ev.type]
CallsMade == [i \in 1..Len(calls) |-> <<calls[i].cmd, calls[i].ev.type>>]

\* C2 as claimed: a line with a marker (and no noise marker) yields the
\* transition of that marker, and the end-to-end stream causes two gateway
\* calls.
C2_StepAsClaimed ==
  \A line \in Lines : \A k \in 1..Len(MarkerOrder) :
    /\ line \notin Noisy
    /\ k \in Contained[line]
    /\ ProcessLine(line)
    => Yields(MarkerOrder[k].kind)

C2_ScriptAsClaimed ==
  ScriptDone =>
    /\ TypesPublished = <<"camera_on", "mic_on", "camera_off", "mic_off">>
    /\ state = [camera |-> FALSE, mic |-> FALSE]
    /\ CallsMade = <<<<"ON", "camera_on">>, <<"OFF", "mic_off">>>>

\* C2 as claimed, step by step over the log stream.
C2_AsClaimed == [][C2_StepAsClaimed /\ C2_ScriptAsClaimed']_vars

\* C2, amended: a line with no noise marker yields the transition of the
\* first marker, in the order camera-connect, camera-disconnect, mic-start,
\* mic-stop, that it contains, and sets that field; the end-to-end stream
\* yields camera_on, mic_on, camera_off, mic_off, ends with camera and mic
\* false, and causes three gateway calls: ON after camera_on, ON after
\* mic_on and OFF after mic_off, each before the next line is read.
\* The lines with a marker and no noise marker, and for each the transition
\* of the first marker, in the order of MarkerOrder, that it contains.
Marked == {line \in Lines \ Noisy : Contained[line] # {}}
FirstMarker ==
  [line \in Marked |->
    MarkerOrder[CHOOSE k \in Contained[line] :
                  \A j \in Contained[line] : k <= j].kind]

C2_Step == \A line \in Marked : ProcessLine(line) => Yields(FirstMarker[line])

C2_Script ==
  ScriptDone =>
    /\ TypesPublished = <<"camera_on", "mic_on", "camera_off", "mic_off">>
    /\ state = [camera |-> FALSE, mic |-> FALSE]
    /\ CallsMade =
         <<<<"ON", "camera_on">>, <<"ON", "mic_on">>, <<"OFF", "mic_off">>>>
    /\ LET hw == Select(deliveries, ByHardware)
       IN /\ [i \in 1..Len(hw) |-> hw[i].n] = <<1, 2, 3, 4>>
          /\ [i \in 1..Len(hw) |-> hw[i].cmd] = <<"ON", "ON", "none", "OFF">>

\* C2, amended, step by step over the log stream: first marker wins, three
\* gateway calls for the end-to-end stream.
C2_EndToEnd == [][C2_Step /\ C2_Script']_vars

C2_Witness == ScriptDone /\ Len(calls) = 3

\* The command the light should show for the tracked state.
StatusCmd == IF state.camera \/ state.mic THEN "ON" ELSE "OFF"

\* C3 as claimed: only hardware transitions were published; once the stream
\* has been quiet for longer than the debounce window, the last command sent
\* to the light (OFF if none was sent) is ON if camera or mic is on and OFF
\* if both are off.
C3_AsClaimed ==
  /\ published # <<>>
  /\ \A i \in 1..Len(published) : published[i].ev.type \in HardwareKinds
  /\ now > LastActivity + HardwareDelay
  => LastCmd = StatusCmd

\* C4 as claimed: only manual directives were published; once no directive
\* has arrived for longer than the throttle window, the last command sent to
\* the light is the one of the last directive published.
C4_AsClaimed ==
  /\ published # <<>>
  /\ \A i \in 1..Len(published) :
       published[i].ev.type \in {"on_air", "off_air"}
  /\ now > LastActivity + OnAirDelay
  /\ now > LastActivity + OffAirDelay
  => /\ calls # <<>>
     /\ LastCmd = IF published[Len(published)].ev.type = "on_air"
                  THEN "ON" ELSE "OFF"

\* The calls of hardwareSubscriber, the debounced handler.
HardwareCalls == Select(deliveries, ByHardware)

\* Invocation i of the debounced handler is the last of its burst: the next
\* one comes a full window later, or there is none yet.
BurstEnd(i) ==
  \/ i = Len(published)
  \/ published[i + 1].at - published[i].at >= HardwareDelay

\* The bursts known to be over: another burst has begun, or the clock is
\* past the window.
BurstsOver ==
  {i \in 1..Len(published) :
     /\ BurstEnd(i)
     /\ i < Len(published) \/ now > published[i].at + HardwareDelay}

\* The burst that ends at this very instant.
BurstEnding ==
  {i \in {Len(published)} : i > 0 /\ now = published[i].at + HardwareDelay}

C5_Safe ==
  LET got == {HardwareCalls[k].n : k \in 1..Len(HardwareCalls)}
  IN /\ BurstsOver \subseteq got
     /\ got \subseteq BurstsOver \cup BurstEnding
     /\ \A k \in 1..Len(HardwareCalls) :
          /\ k > 1 => HardwareCalls[k - 1].n < HardwareCalls[k].n
          /\ HardwareCalls[k].ev = published[HardwareCalls[k].n].ev
          /\ HardwareCalls[k].at = published[HardwareCalls[k].n].at + HardwareDelay

C5_Live ==
  \A i \in 1..MaxCalls :
    (Len(published) = i)
      ~> (\/ Len(published) > i
          \/ \E k \in 1..Len(HardwareCalls) : HardwareCalls[k].n = i)

\* C5: the debounced handler is called exactly once per burst (a maximal run
\* of invocations less than the window apart), exactly the window after the
\* last invocation of the burst and with the arguments of that invocation;
\* an invocation that no other follows is eventually delivered.
C5_Debounce == []C5_Safe /\ C5_Live

\* Invocations at t, t + Tick and t + 2 Tick, one call at t + 2 Tick + window.
C5_Witness ==
  /\ Len(published) = 3
  /\ published[2].at = published[1].at + Tick
  /\ published[3].at = published[2].at + Tick
  /\ Len(HardwareCalls) = 1
  /\ HardwareCalls[1].ev = published[3].ev
  /\ HardwareCalls[1].at = published[3].at + HardwareDelay

\* The invocations (numbered as the events published) that the throttle of
\* this directive let through, and the time of each invocation.
Accepted(which) ==
  {deliveries[k].n : k \in {k \in 1..Len(deliveries) : deliveries[k].by = which}}
At(i) == published[i].at
Latest(S) == CHOOSE j \in S : \A k \in S : k <= j
DelayOf(which) == IF which = "on_air" THEN OnAirDelay ELSE OffAirDelay
Throttles == {"on_air", "off_air"}

\* The calls of the handler wrapped by the throttle of this directive.
CallsBy(which) ==
  IF which = "on_air" THEN Select(deliveries, ByOnAir)
  ELSE Select(deliveries, ByOffAir)

\* C6: an invocation of a throttled handler that follows an accepted one is
\* delivered if and only if at least the window has passed since the last
\* accepted invocation; a delivered invocation reaches the handler at the
\* instant of the invocation, once, with its arguments (no buffering, no
\* trailing call); and the reference time is that of the last accepted
\* invocation, which a dropped one does not move.
C6_Throttle ==
  \A which \in Throttles :
    /\ \A i \in 1..Len(published) :
         LET prior == {j \in Accepted(which) : j < i}
         IN prior # {} =>
              (i \in Accepted(which)
                 <=> At(i) - At(Latest(prior)) >= DelayOf(which))
    /\ LET got == CallsBy(which)
       IN \A k \in 1..Len(got) :
            /\ k > 1 => got[k - 1].n < got[k].n
            /\ got[k].n \in 1..Len(published)
            /\ got[k].at = At(got[k].n)
            /\ got[k].ev = published[got[k].n].ev
    /\ Accepted(which) # {} => tPrev[which] = At(Latest(Accepted(which)))
    /\ Accepted(which) = {} => tPrev[which] = InitialTPrev

\* Accepted at t, dropped at t + Tick, accepted again at t + window.
C6_Witness ==
  /\ Len(published) = 3
  /\ At(2) = At(1) + Tick
  /\ At(3) = At(1) + OnAirDelay
  /\ Accepted("on_air") = {1, 3}
  /\ published[3].ev.type = "on_air"
  /\ Len(calls) >= 1 /\ calls[Len(calls)].by = "on_air"

\* C7 as claimed: the first invocation of a throttled handler is delivered,
\* whatever the clock reads at that moment.
C7_AsClaimed ==
  published # <<>> => \A which \in Throttles : 1 \in Accepted(which)

\* The directives of this kind that reached the light.
AcceptedDirectives(which) ==
  {j \in Accepted(which) : published[j].ev.type = which}

\* C8 as claimed: whether a directive reaches the light depends only on the
\* time since the last accepted directive of its own kind: it does if there
\* is none, or if that one is at least the window old.
C8_AsClaimed ==
  \A which \in Throttles :
    \A i \in 1..Len(published) :
      published[i].ev.type = which =>
        LET prior == {j \in AcceptedDirectives(which) : j < i}
        IN i \in Accepted(which)
             <=> (prior = {} \/ At(i) - At(Latest(prior)) >= DelayOf(which))

\* This step publishes one event on the bus.
Publishes == Len(published') = Len(published) + 1

\* The observer of connection c receives this one text more, and it reads
\* as event e.
Receives(c, e) ==
  /\ Len(inbox'[c]) = Len(inbox[c]) + 1
  /\ SubSeq(inbox'[c], 1, Len(inbox[c])) = inbox[c]
  /\ WellFormed(inbox'[c][Len(inbox'[c])])
  /\ Parse(inbox'[c][Len(inbox'[c])]) = e

\* This step is websocket.message run for a manual directive sent on c.
DirectiveSent(c, text) ==
  /\ ws[c] = "open"
  /\ Publishes
  /\ Message(c, text)

C9_Step ==
  /\ Publishes =>
       \A c \in Conns :
         IF ws[c] = "open"
         THEN Receives(c, published'[Len(published')].ev)
         ELSE inbox'[c] = inbox[c]
  /\ \A c \in Conns, text \in {MsgOnAir, MsgOffAir} :
       DirectiveSent(c, text) =>
         \A d \in Conns : ws[d] = "open" =>
           inbox'[d] = Append(inbox[d], text)
  /\ ~Publishes =>
       \A c \in Conns : inbox'[c] # inbox[c] => ws[c] = "new" /\ ws'[c] = "open"

\* C9: every event published on the bus, a manual directive sent by an
\* observer included, is received exactly once by every open observer, the
\* sender included, as the next text of its stream (so in the order of
\* publication); nothing else is received but the greeting of `open`.
C9_Convergence == [][C9_Step]_vars

\* Two observers, a directive sent by the second: both have the greeting and
\* the directive, once.
C9_Witness ==
  /\ ws = [c \in Conns |-> "open"]
  /\ Len(published) = 1
  /\ published[1].ev.type = "off_air"
  /\ \A c \in Conns : Len(inbox[c]) = 2 /\ inbox[c][2] = MsgOffAir

\* The forwarding subscriptions registered on the bus.
Forwarders ==
  {i \in 1..Len(subscribers) : subscribers[i].kind = "forward"}

\* C10 as claimed: the bus holds one forwarding subscription per open
\* connection, and no publish attempts a delivery to a closed connection.
C10_AsClaimed ==
  /\ Cardinality(Forwarders) = Cardinality({c \in Conns : ws[c] = "open"})
  /\ \A c \in Conns : lateSends[c] = 0

\* The open observers.
OpenConns == {c \in Conns : ws[c] = "open"}

\* C11 as claimed: whenever the bus is at rest, every open observer shows the
\* same on/off status, an observer that connected after the last manual
\* directive included.
C11_AsClaimed ==
  \A c, d \in OpenConns : ShownAfter(inbox[c]) = ShownAfter(inbox[d])

\* The six kinds of envelope of the wire contract.
EnvelopeKinds == HardwareKinds \cup {"on_air", "off_air"}

\* The kind of the greeting for the tracked state, as claimed.
GreetingAsClaimed == IF state.camera \/ state.mic THEN "on_air" ELSE "off_air"

C12_StepAsClaimed ==
  \A c \in Conns :
    Open(c) =>
      /\ Len(inbox'[c]) = 1
      /\ WellFormed(inbox'[c][1])
      /\ Parse(inbox'[c][1]).type = GreetingAsClaimed
      /\ Parse(inbox'[c][1]).type \in EnvelopeKinds
      /\ \A d \in Conns \ {c} : inbox'[d] = inbox[d]

\* C12 as claimed: the first message of a new connection is one envelope of
\* kind on_air if camera or mic is on and off_air otherwise, one of the six
\* enumerated kinds, sent to that connection only and before any forwarded
\* event.
C12_AsClaimed == [][C12_StepAsClaimed]_vars

\* C13 as claimed: the state a hardware transition carries to its handler
\* is the MediaState as it was immediately before the transition was
\* applied, whatever has been applied since (history `published` holds the
\* transition with the state before it).
C13_AsClaimed ==
  \A k \in 1..Len(deliveries) :
    deliveries[k].by = "hardware" =>
      deliveries[k].ev = published[deliveries[k].n].ev

\* The lines with the noise marker or with no marker at all.
Unmarked == Noisy \cup {line \in Lines : Contained[line] = {}}

\* The type of the event this step publishes.
TypePublished == published'[Len(published')].ev.type

C14_Step ==
  /\ state'.camera # state.camera =>
       Publishes /\ TypePublished \in {"camera_on", "camera_off"}
  /\ state'.mic # state.mic =>
       Publishes /\ TypePublished \in {"mic_on", "mic_off"}
  /\ \A line \in Unmarked :
       ProcessLine(line) =>
         /\ state' = state
         /\ published' = published
         /\ timeout' = timeout /\ tPrev' = tPrev
         /\ calls' = calls /\ inbox' = inbox

\* C14: over any sequence of log lines, camera changes only in a step that
\* publishes a camera_on / camera_off transition and mic only in a step that
\* publishes a mic_on / mic_off transition; a line with no marker and a
\* noise-banner line change neither field and publish nothing.
C14_FieldIndependence == [][C14_Step]_vars

\* Camera on, mic on, camera off: the mic is still on, the camera is not.
C14_Witness ==
  /\ TypesPublished = <<"camera_on", "mic_on", "camera_off">>
  /\ state = [camera |-> FALSE, mic |-> TRUE]
  /\ script = -1

\* The MediaState the log lines processed so far give: the transitions the
\* tailer published (the ones that carry a state), applied in order.
RECURSIVE Tracked(_)
Tracked(log) ==
  IF log = <<>> THEN [camera |-> FALSE, mic |-> FALSE]
  ELSE LET e == log[Len(log)].ev
           before == Tracked(SubSeq(log, 1, Len(log) - 1))
       IN IF ~e.has THEN before
          ELSE [camera |-> IF e.type = "camera_on" THEN TRUE
                           ELSE IF e.type = "camera_off" THEN FALSE
                           ELSE before.camera,
                mic |-> IF e.type = "mic_on" THEN TRUE
                        ELSE IF e.type = "mic_off" THEN FALSE
                        ELSE before.mic]

C15_Step ==
  /\ \A c \in Conns, text \in {MsgOnAir, MsgOffAir} :
       DirectiveSent(c, text) => state' = state
  /\ state' = Tracked(published')
  /\ \A c \in Conns :
       Open(c) =>
         ShownAfter(inbox'[c]) =
           IF Tracked(published).camera \/ Tracked(published).mic
           THEN "on" ELSE "off"

C16_AsClaimed ==
  /\ \A i \in 1..Len(published) :
       /\ published[i].ev.type \in EnvelopeKinds
       /\ published[i].ev.type \in HardwareKinds => published[i].ev.has
  /\ \A k \in 1..Len(calls) :
       calls[k].by = "hardware" => calls[k].ev.has


\* The handlers this step invokes, in the order of their invocation.
NewCalls == SubSeq(invoked', Len(invoked) + 1, Len(invoked'))

\* Handler number i on the bus is invoked by this step.
Reached(i) ==
  \E k \in 1..Len(NewCalls) : NewCalls[k].sub = subscribers[i]

C17_StepAsClaimed ==
  \A line \in Marked :
    (Throws /\ ProcessLine(line)) =>
      /\ \A i \in 1..Len(subscribers) :
           subscribers[i] # Thrower => Reached(i)
      /\ tailing'
      /\ state' = Applied(state, TokenOf[line])

\* C17 as claimed: when a handler throws while the event of a log line is
\* broadcast, every other registered handler is still invoked with that
\* event, the read loop of the tailer keeps running, and the transition of
\* the line is applied to the MediaState.
C17_AsClaimed == [][C17_StepAsClaimed]_vars


\* The invocations a publish makes: one per registration, in the order of
\* the registrations, all carrying the number of the event being published.
FanOut ==
  [i \in 1..Len(subscribers) |->
    [sub |-> subscribers[i], n |-> Len(published) + 1]]

C18_Step ==
  /\ Publishes => NewCalls = FanOut
  /\ ~Publishes => invoked' = invoked
  /\ state' # state => Publishes

\* C18: a step that publishes an event invokes, within that step, every
\* registration the bus holds at the moment of the call exactly once and
\* in subscription order (a handler subscribed twice is two registrations),
\* and no other step invokes a handler; the step in which the tailer
\* applies the transition of a line is such a step, so that every handler
\* has been invoked with that transition before the next line is processed.
C18_OrderedFanOut == [][C18_Step]_vars

\* Two events were published while the bus held five registrations, two of
\* them made by a test, and each event reached all five in order.
C18_Witness ==
  /\ Len(published) = 2
  /\ Len(subscribers) = 5
  /\ invoked =
       [k \in 1..10 |->
         [sub |-> subscribers[((k - 1) % 5) + 1], n |-> ((k - 1) \div 5) + 1]]


\* The positions on the bus of the registrations of handlers other than h.
Kept(h) == {i \in 1..Len(subscribers) : subscribers[i] # h}

\* The bus once h is gone holds the other registrations, in the order they
\* had.
OthersStay(h) ==
  /\ Len(subscribers') = Cardinality(Kept(h))
  /\ \A i \in Kept(h) :
       subscribers'[Cardinality({j \in Kept(h) : j <= i})] = subscribers[i]

\* Handler h is invoked by this step.
Invokes(h) == \E k \in 1..Len(NewCalls) : NewCalls[k].sub = h

\* Handler h holds a registration on the bus.
Registered(h) == \E i \in 1..Len(subscribers) : subscribers[i] = h

C19_Step ==
  /\ \A h \in Probes :
       (subscribers' # subscribers /\ Unsubscribe(h)) =>
         /\ OthersStay(h)
         /\ Removed(subscribers', h) = subscribers'
  /\ Publishes => \A h \in Probes : Invokes(h) => Registered(h)

\* C19: calling the function subscribe(h) returned removes every
\* registration of h and leaves the other registrations in their relative
\* order; calling it again on the result changes nothing; and a handler
\* that holds no registration is invoked by no publish.
C19_Unsubscribe == [][C19_Step]_vars

\* A handler of a test, subscribed twice, received the first event twice,
\* was unsubscribed, and the second event reached the three handlers of the
\* light, in their order, but not this one.
C19_Witness ==
  /\ Len(published) = 2
  /\ \E h \in Probes :
       /\ ~(\E i \in 1..Len(subscribers) : subscribers[i] = h)
       /\ Cardinality({k \in 1..Len(invoked) :
                         invoked[k] = [sub |-> h, n |-> 1]}) = 2
       /\ ~(\E k \in 1..Len(invoked) : invoked[k] = [sub |-> h, n |-> 2])
       /\ SubSeq(invoked, Len(invoked) - 2, Len(invoked)) =
            <<[sub |-> HardwareSub, n |-> 2], [sub |-> OnAirSub, n |-> 2],
              [sub |-> OffAirSub, n |-> 2]>>


\* The texts an observer can send that are not a manual directive.
NotDirectives == ClientMessages \ {MsgOnAir, MsgOffAir}

C20_StepAsClaimed ==
  \A c \in Conns, text \in NotDirectives :
    (ws[c] = "open" /\ Message(c, text)) =>
      /\ published' = published
      /\ inbox' = inbox
      /\ timeout' = timeout /\ tPrev' = tPrev /\ calls' = calls
      /\ ws' = ws

\* C20 as claimed: a message of an observer that is not a manual directive
\* is discarded: nothing is published for it, no observer is sent anything,
\* the light and its timers are untouched, and the connection it came on
\* stays open.
C20_AsClaimed == [][C20_StepAsClaimed]_vars


C21_StepAsClaimed ==
  \A k \in 1..MaxCalls :
    Reject(k) =>
      /\ state' = state
      /\ subscribers' = subscribers
      /\ calls' = calls
      /\ published' = published
      /\ inbox' = inbox
      /\ tailing'
      /\ alive'

\* C21 as claimed: when the POST of a gateway call fails, the MediaState and
\* the subscriber list are unchanged, no call is made again for it, nothing
\* is published or sent to an observer, and the tailer and the light keep
\* working: the read loop is running and so is the process.
C21_AsClaimed == [][C21_StepAsClaimed]_vars


\* The gateway call the throttled handler of this directive makes now, if
\* its throttle lets the directive through.
DirectiveCall(text) ==
  LET e == Parse(text)
  IN IF ThrottlePasses(now, tPrev[e.type], DelayOf(e.type))
     THEN <<[cmd |-> IF e.type = "on_air" THEN "ON" ELSE "OFF",
             by |-> e.type, ev |-> e]>>
     ELSE <<>>

C22_Step ==
  /\ ~tailing =>
       /\ ~tailing'
       /\ state' = state
       /\ Publishes => ~published'[Len(published')].ev.has
  /\ \A text \in {MsgOnAir, MsgOffAir} :
       (~tailing /\ DirectiveSent(1, text)) =>
         /\ inbox'[1] = Append(inbox[1], text)
         /\ NewCalls = FanOut
         /\ calls' = calls \o DirectiveCall(text)

\* C22: once the stream of the source has ended the read loop never runs
\* again: no later step emits a transition of the tailer or changes the
\* MediaState; a manual directive sent after that is still handed to every
\* subscriber of the bus, reaches the observer, and reaches the light when
\* its throttle lets it through.
C22_StreamEnd == [][C22_Step]_vars

\* The camera went on, the stream ended with the timer of the hardware
\* handler pending, and an off_air directive sent after that reached the
\* observer and the light.
C22_Witness ==
  /\ ~tailing
  /\ state.camera
  /\ Len(published) = 2
  /\ published[1].ev.type = "camera_on"
  /\ published[2].ev.type = "off_air"
  /\ Len(inbox[1]) = 2 /\ inbox[1][2] = MsgOffAir
  /\ calls # <<>> /\ calls[Len(calls)].by = "off_air"


\* The chunks with the noise banner and at least one recognised marker.
BannerCases ==
  {line \in Lines \cup BannerLines :
    /\ Includes(line, NoiseMarker)
    /\ \E marker \in Markers : Includes(line, marker)}

C23_Step ==
  /\ \A line \in BannerCases : TokenOf[line] \notin HardwareKinds
  /\ \A line \in BannerCases :
       ProcessLine(line) =>
         /\ state' = state
         /\ published' = published
         /\ invoked' = invoked
         /\ timeout' = timeout /\ calls' = calls

\* C23: a chunk that contains the banner "Filtering the log data using"
\* yields no token, publishes nothing, invokes no handler and leaves the
\* MediaState, the timer and the light as they are, wherever in the chunk
\* the recognised markers stand and however many of them there are.
C23_BannerFirst == [][C23_Step]_vars

\* The stream began with a chunk holding the banner and a marker (the only
\* chunks of this stream that publish nothing), and nothing was published.
C23_Witness ==
  /\ script = -1
  /\ published = <<>>
  /\ state = [camera |-> FALSE, mic |-> FALSE]
  /\ ~timeout.pending


\* The calls of the light handlers that were made for event number n and
\* sent something to the light.
ActedFor(n) ==
  {k \in 1..Len(deliveries) : deliveries[k].n = n /\ Acted(deliveries[k])}

\* What a handler that was called with event e has to send to the light.
Resolved(by, e) ==
  CASE by = "hardware" ->
         IF e.type \in HardwareKinds /\ e.has THEN TableAction(e) ELSE "none"
    [] by = "on_air" -> IF e.type = "on_air" THEN "ON" ELSE "none"
    [] by = "off_air" -> IF e.type = "off_air" THEN "OFF" ELSE "none"

\* C24: over the whole history, no event has caused more than one gateway
\* call; the hardware handler has sent nothing for a manual directive and
\* the on_air / off_air handlers nothing for a hardware transition; every
\* handler call that the decision table or the directive resolves to ON or
\* OFF has sent exactly that; and the POSTs made are, one for one and in
\* order, the handler calls that sent something.
C24_OneCallPerAction ==
  /\ \A n \in 1..Len(published) : Cardinality(ActedFor(n)) <= 1
  /\ \A k \in 1..Len(deliveries) :
       LET d == deliveries[k]
       IN /\ d.by = "hardware" /\ d.ev.type \in Throttles => d.cmd = "none"
          /\ d.by \in Throttles /\ d.ev.type \in HardwareKinds =>
               d.cmd = "none"
          /\ d.ev.type \in Throttles \/ d.ev.has =>
               d.cmd = Resolved(d.by, d.ev)
  /\ LET acted == Select(deliveries, Acted)
     IN calls = [k \in 1..Len(acted) |->
                  [cmd |-> acted[k].cmd, by |-> acted[k].by,
                   ev |-> acted[k].ev]]

\* A hardware transition and a manual directive have each passed all three
\* rate limiters and each has caused one gateway call.
C24_Witness ==
  /\ Len(published) = 2
  /\ published[1].ev.type = "mic_on"
  /\ published[2].ev.type = "off_air"
  /\ Len(calls) = 2
  /\ \A n \in 1..2 :
       {deliveries[k].by :
          k \in {j \in 1..Len(deliveries) : deliveries[j].n = n}}
         = {"hardware", "on_air", "off_air"}


\* The number of registrations handler h holds in a list, and the number of
\* times this step invokes it.
Registrations(subs, h) == Cardinality({i \in 1..Len(subs) : subs[i] = h})
Invocations(h) == Cardinality({k \in 1..Len(NewCalls) : NewCalls[k].sub = h})

\* The handlers that stand in a list.
Standing(subs) == {subs[i] : i \in 1..Len(subs)}

C25_Step ==
  Publishes =>
    /\ \A h \in Standing(subscribers') :
         Invocations(h) = Registrations(subscribers, h)
    /\ \A k, j \in 1..Len(NewCalls) :
         (/\ k < j
          /\ NewCalls[k].sub \in Standing(subscribers')
          /\ NewCalls[j].sub \in Standing(subscribers')
          /\ NewCalls[k].sub # NewCalls[j].sub)
         => \E a, b \in 1..Len(subscribers) :
              a < b /\ subscribers[a] = NewCalls[k].sub
                    /\ subscribers[b] = NewCalls[j].sub

\* C25: in a publish during which handlers unsubscribe (themselves or
\* others) or subscribe, every handler that is registered when the publish
\* returns is invoked once for each registration it held when the publish
\* was called, in the order of those registrations: none that remains is
\* skipped or invoked twice, and one subscribed during the publish (it held
\* no registration at the call) is not invoked by it but by the next.
C25_MutationDuringPublish == [][C25_Step]_vars

\* A handler that unsubscribes itself stood before one that subscribes a
\* probe: in the first publish both were invoked and the probe was not; in
\* the second the probe was invoked, after the handler that subscribed it.
C25_Witness ==
  /\ Len(published) = 2
  /\ invoked =
       <<[sub |-> HardwareSub, n |-> 1], [sub |-> OnAirSub, n |-> 1],
         [sub |-> OffAirSub, n |-> 1], [sub |-> Once, n |-> 1],
         [sub |-> Adder(1), n |-> 1],
         [sub |-> HardwareSub, n |-> 2], [sub |-> OnAirSub, n |-> 2],
         [sub |-> OffAirSub, n |-> 2], [sub |-> Adder(1), n |-> 2],
         [sub |-> Handler(1), n |-> 2]>>


\* A transition emitted by the tailer is waiting in the timer of debounce.
TransitionPending ==
  /\ timeout.pending
  /\ timeout.args.type \in HardwareKinds
  /\ timeout.args.has

C26_StepAsClaimed ==
  \A text \in ClientMessages :
    (TransitionPending /\ ws[1] = "open" /\ Message(1, text)) =>
      timeout' = timeout

\* C26 as claimed: a message of an observer that arrives while a hardware
\* transition is waiting in the debounce timer leaves the timer as it is:
\* the same transition is still pending and is due at the same time.
C26_AsClaimed == [][C26_StepAsClaimed]_vars


\* This step is a gateway call of the hardware handler, with this command.
HardwareSends(cmd) ==
  /\ Len(calls') = Len(calls) + 1
  /\ calls'[Len(calls')].by = "hardware"
  /\ calls'[Len(calls')].cmd = cmd

C27_Step ==
  /\ HardwareSends("OFF") => ~state.camera /\ ~state.mic
  /\ HardwareSends("ON") => state.camera \/ state.mic
  /\ HardwareSends("OFF") \/ HardwareSends("ON") => state' = state

\* C27: for any sequence and timing of log lines, at the moment the
\* debounced hardware handler calls light.off() the MediaState of the tailer
\* has camera and mic off, and at the moment it calls light.on() it has the
\* camera or the mic on.
C27_OffOnlyWhenIdle == [][C27_Step]_vars

\* A first transition was delivered and the light was sent ON; two more
\* came within one window, the hardware handler was called for the last of
\* them only, and it sent OFF with the camera and the mic both off.
C27_Witness ==
  /\ Len(calls) = 2
  /\ calls[1].by = "hardware" /\ calls[1].cmd = "ON"
  /\ calls[2].by = "hardware" /\ calls[2].cmd = "OFF"
  /\ Len(published) = 3
  /\ Len(HardwareCalls) = 2
  /\ state = [camera |-> FALSE, mic |-> FALSE]

====
